---- MODULE Spec2Model ----
(***************************************************************************)
(* omnihash: the digester-factory registry (DigesterFactories and the      *)
(* registration passes of collect_digester_factories) and the single-pass  *)
(* fan-out hashing engine (produce_hashes) with its accumulators.          *)
(*                                                                         *)
(* A Python str is a TLA+ string; a Python bytes object is a tuple of      *)
(* integers 0..255; an optional value (None, or click's default False) is  *)
(* the empty tuple <<>> and a present value v is the 1-tuple <<v>>.        *)
(***************************************************************************)
EXTENDS Integers, Sequences, FiniteSets, TLC

VARIABLES
    includes,     \* DigesterFactories.includes (upper-cased fragments)
    excludes,     \* DigesterFactories.excludes (upper-cased fragments)
    include_CRCs, \* the -c flag
    digfacts,     \* the OrderedDict: a tuple of [algo, fact] in insertion order
    pc,           \* position in collect_digester_factories / produce_hashes
    ncalls,       \* register_if_accepted calls made by the plugin pass
    query,        \* the last is_algo_accepted(algo) call of a client and its answer
    fsize,        \* produce_hashes: declared length, <<>> when None
    bytechunks,   \* the byte source: the chunks it will yield, in order
    srcpos,       \* chunks the source has yielded so far
    srcdone,      \* the source has raised StopIteration
    srcfailed,    \* the source has raised an I/O error
    match,        \* the -m option, <<>> when not given
    use_json,     \* the -j flag
    streams,      \* the tee: [cursor, buf, base]
    idx,          \* position of the for loop over batch
    digester,     \* the accumulator of the current algorithm, <<>> before the first
    calls,        \* the chunks passed to digester.update so far
    result,       \* digester.hexdigest() of the last finished algorithm
    hashed,       \* the bytes the hash primitive of that algorithm consumed
    computed,     \* every (algo, result) computed so far, in order
    results,      \* the results dict: a tuple of [algo, digest]
    match_found,
    stdout,       \* lines echoed: a tuple of [algo, digest]
    stderr,       \* messages written with err=True
    returned,     \* <<>> until produce_hashes returns, then <<results>>
    classattrs,   \* the class attributes LenDigester.fsize and GitSlurpDigester.fbytes
    finals,       \* hexdigest() calls made on the current accumulator
    hashmes,      \* main: the items of the command line
    itemno,       \* main: position of the for loop over hashmes
    all_results,  \* main: the results list, a tuple of [NAME, results]
    fds,          \* per item: "none", or the state of the file handle it opened
    printed       \* <<>> until main prints the JSON document, then <<all_results>>

regvars == <<includes, excludes, include_CRCs, digfacts, ncalls, query>>
srcvars == <<fsize, bytechunks, srcpos, srcdone, srcfailed, match, use_json>>
loopvars == <<streams, idx, digester, calls, result, hashed, computed, classattrs, finals>>
outvars == <<results, match_found, stdout, stderr, returned>>
mainvars == <<hashmes, itemno, all_results, fds, printed>>
vars == <<regvars, srcvars, loopvars, outvars, pc, mainvars>>

----------------------------------------------------------------------------
(* Python str and bytes primitives *)

\* The printable ASCII characters of code points 32..95 and 97..126, in order
\* (code point 96 is not used by any name, fragment or digest).
Printable32 == " !\"#$%&'()*+,-./0123456789:;<=>?@ABCDEFGHIJKLMNOPQRSTUVWXYZ[\\]^_"
Printable97 == "abcdefghijklmnopqrstuvwxyz{|}~"

LowerLetters == "abcdefghijklmnopqrstuvwxyz"
UpperLetters == "ABCDEFGHIJKLMNOPQRSTUVWXYZ"

CharAt(s, i) == SubSeq(s, i, i)

CharsOf(table) == {CharAt(table, i) : i \in 1..Len(table)}

Chars == CharsOf(Printable32) \cup CharsOf(Printable97)

IndexIn(c, table) == CHOOSE i \in 1..Len(table) : CharAt(table, i) = c

\* ord(c) of each printable ASCII character.
Ord ==
    [c \in Chars |->
        IF c \in CharsOf(Printable32) THEN 31 + IndexIn(c, Printable32)
        ELSE 96 + IndexIn(c, Printable97)]

\* c.upper() and c.lower() of each character.
UpperChar ==
    [c \in Chars |->
        IF c \in CharsOf(LowerLetters) THEN CharAt(UpperLetters, IndexIn(c, LowerLetters))
        ELSE c]
LowerChar ==
    [c \in Chars |->
        IF c \in CharsOf(UpperLetters) THEN CharAt(LowerLetters, IndexIn(c, UpperLetters))
        ELSE c]

RECURSIVE MapChars(_, _)
MapChars(s, table) ==
    IF s = "" THEN "" ELSE table[Head(s)] \o MapChars(Tail(s), table)

\* str.upper() and str.lower()
upper(s) == MapChars(s, UpperChar)
lower(s) == MapChars(s, LowerChar)

\* str.isupper(): some cased character, and no lower-case one.
isupper(s) ==
    /\ \E i \in 1..Len(s) : LowerChar[CharAt(s, i)] # CharAt(s, i)
    /\ \A i \in 1..Len(s) : UpperChar[CharAt(s, i)] = CharAt(s, i)

\* The `in` operator on two str (f in s).
contains(s, f) ==
    \E i \in 0..(Len(s) - Len(f)) : SubSeq(s, i + 1, i + Len(f)) = f

\* str.encode() of an ASCII str: one byte per character.
encode(s) == [i \in 1..Len(s) |-> Ord[CharAt(s, i)]]

Digits == "0123456789"

RECURSIVE DecNat(_)
DecNat(n) ==
    IF n < 10 THEN CharAt(Digits, n + 1)
    ELSE DecNat(n \div 10) \o CharAt(Digits, (n % 10) + 1)

\* str(n) and "%i" % n of an int.
str(n) == IF n < 0 THEN "-" \o DecNat(0 - n) ELSE DecNat(n)

\* The order of str under sorted(): by code point, a proper prefix first.
RECURSIVE StrLess(_, _)
StrLess(a, b) ==
    IF b = "" THEN FALSE
    ELSE IF a = "" THEN TRUE
    ELSE IF Head(a) = Head(b) THEN StrLess(Tail(a), Tail(b))
    ELSE Ord[Head(a)] < Ord[Head(b)]

\* sorted(S) of a collection of distinct str.
RECURSIVE sorted(_)
sorted(S) ==
    IF S = {} THEN <<>>
    ELSE LET m == CHOOSE a \in S : \A b \in S \ {a} : StrLess(a, b)
         IN  <<m>> \o sorted(S \ {m})

\* [f(x) for x in seq]
UpperAll(seq) == [i \in 1..Len(seq) |-> upper(seq[i])]

RECURSIVE Concat(_)
Concat(chunks) ==
    IF chunks = <<>> THEN <<>> ELSE Head(chunks) \o Concat(Tail(chunks))

----------------------------------------------------------------------------
(* DigesterFactories *)

\* A factory is [kind, arg]: LenDigester itself, or a functools.partial of a
\* local factory function with its first argument bound.
Factory(kind, arg) == [kind |-> kind, arg |-> arg]

Keys(d) == {d[i].algo : i \in 1..Len(d)}

KeyIndex(d, algo) == CHOOSE i \in 1..Len(d) : d[i].algo = algo

\* OrderedDict.__setitem__: a present key keeps its place and takes the new
\* value, a new key goes last.
SetItem(d, algo, fact) ==
    IF algo \in Keys(d)
    THEN [d EXCEPT ![KeyIndex(d, algo)] = [algo |-> algo, fact |-> fact]]
    ELSE Append(d, [algo |-> algo, fact |-> fact])

\* any(f in algo for f in fragments)
AnyIn(fragments, algo) ==
    \E i \in 1..Len(fragments) : contains(algo, fragments[i])

\* is_algo_accepted with the excludes consulted only when nothing is included.
is_algo_accepted_includes_win(incl, excl, algo) ==
    IF incl = <<>> THEN ~AnyIn(excl, algo) ELSE AnyIn(incl, algo)

\* DigesterFactories.is_algo_accepted, for an algo that passed the assert.
\* `excludes and any(...)` is the (falsy) empty list when excludes is empty.
is_algo_accepted(incl, excl, algo) ==
    LET is_included == (incl = <<>>) \/ AnyIn(incl, algo)
        is_excluded == IF excl = <<>> THEN FALSE ELSE AnyIn(excl, algo)
    IN  is_included /\ ~is_excluded

\* register_if_accepted without the acceptance test.
register_if_accepted_unconditional(incl, excl, d, algo, fact) == SetItem(d, algo, fact)

\* DigesterFactories.register_if_accepted, for an algo that passed the assert.
register_if_accepted(incl, excl, d, algo, fact) ==
    IF is_algo_accepted(incl, excl, algo) THEN SetItem(d, algo, fact) ELSE d

\* dict.update(pairs): the pairs are set one after the other.
RECURSIVE Update(_, _)
Update(d, pairs) ==
    IF pairs = <<>> THEN d
    ELSE Update(SetItem(d, Head(pairs).algo, Head(pairs).fact), Tail(pairs))

----------------------------------------------------------------------------
(* The sources of algorithms *)

\* hashlib.algorithms_available: OpenSSL lists some names in both cases.
HashlibAvailable == {"md5", "sha1", "SHA1"}

\* 'blob commit tag'.split()
GitTypes == <<"blob", "commit", "tag">>

\* rec[0] for rec in crcmod._crc_definitions_table
CrcDefinitions == {"crc-8", "crc-32"}

\* What an installed plugin may pass to register_if_accepted.
PluginPool ==
    { [algo |-> "SHA1", fact |-> Factory("plugin", "SHA1")],
      [algo |-> "BLAKE2S", fact |-> Factory("plugin", "BLAKE2S")],
      [algo |-> "sha3", fact |-> Factory("plugin", "sha3")] }

RECURSIVE HashlibUpdate(_, _, _, _)
HashlibUpdate(incl, excl, d, algos) ==
    IF algos = <<>> THEN d
    ELSE LET algo == Head(algos)
             keep == algo \notin Keys(d) /\ is_algo_accepted(incl, excl, upper(algo))
             d2 == IF keep THEN SetItem(d, upper(algo), Factory("hashlib", algo)) ELSE d
         IN  HashlibUpdate(incl, excl, d2, Tail(algos))

\* append_hashlib_digesters: the generator is consumed lazily by update(), so
\* `algo not in digfacts` (the name as hashlib spells it) sees the keys set so far.
append_hashlib_digesters(incl, excl, d) ==
    HashlibUpdate(incl, excl, d, sorted(HashlibAvailable))

GitAlgo(otype) == "GIT-" \o upper(otype)

\* append_git_digesters
append_git_digesters(incl, excl, d) ==
    LET accepted == SelectSeq(GitTypes, LAMBDA otype : is_algo_accepted(incl, excl, GitAlgo(otype)))
        pairs == [i \in 1..Len(accepted) |->
                     [algo |-> GitAlgo(accepted[i]), fact |-> Factory("git", accepted[i])]]
    IN  Update(d, pairs)

\* append_crc_digesters
append_crc_digesters(incl, excl, d) ==
    LET algos == sorted({upper(n) : n \in CrcDefinitions})
        accepted == SelectSeq(algos, LAMBDA algo : is_algo_accepted(incl, excl, algo))
        pairs == [i \in 1..Len(accepted) |->
                     [algo |-> accepted[i], fact |-> Factory("crc", accepted[i])]]
    IN  Update(d, pairs)

\* collect_digester_factories with no plugin installed.
collect_digester_factories(f, x, c) ==
    LET incl == UpperAll(f)
        excl == UpperAll(x)
        d1 == register_if_accepted(incl, excl, <<>>, "LENGTH", Factory("LenDigester", ""))
        d2 == append_hashlib_digesters(incl, excl, d1)
        d3 == append_git_digesters(incl, excl, d2)
    IN  IF c THEN append_crc_digesters(incl, excl, d3) ELSE d3

----------------------------------------------------------------------------
(* collect_digester_factories, pass by pass *)

\* The number of register_if_accepted calls the plugin pass makes at most.
MaxPluginCalls == 2

\* The -f and -x fragments an invocation gives, as typed.
FragmentPool == {"sha", "git-b", "e"}
MaxFragments == 2

FragmentLists == UNION {[1..k -> FragmentPool] : k \in 0..MaxFragments}

\* The names a client asks is_algo_accepted about.
QueryNames == {"LENGTH", "SHA1", "GIT-BLOB", "md5"}

NoQuery == [algo |-> "", ret |-> "None"]

\* class LenDigester: fsize = 0; class GitSlurpDigester: fbytes = b''
ClassDefaults == [fsize |-> 0, fbytes |-> <<>>]

\* produce_hashes has not been called.
EngineIdle ==
    /\ fsize = <<>> /\ bytechunks = <<>> /\ srcpos = 0
    /\ srcdone = FALSE /\ srcfailed = FALSE
    /\ match = <<>> /\ use_json = FALSE
    /\ streams = [cursor |-> <<>>, buf |-> <<>>, base |-> 0]
    /\ idx = 0 /\ digester = <<>> /\ calls = <<>> /\ result = "" /\ hashed = <<>>
    /\ computed = <<>> /\ results = <<>> /\ match_found = FALSE
    /\ stdout = <<>> /\ stderr = <<>> /\ returned = <<>>
    /\ classattrs = ClassDefaults /\ finals = 0
    /\ hashmes = <<>> /\ itemno = 0 /\ all_results = <<>> /\ fds = <<>> /\ printed = <<>>

enginevars == <<srcvars, loopvars, outvars, mainvars>>

\* DigesterFactories(includes, excludes) has been constructed.
InitReg ==
    /\ \E f \in FragmentLists, x \in FragmentLists :
          /\ includes = UpperAll(f)
          /\ excludes = UpperAll(x)
    /\ include_CRCs \in BOOLEAN
    /\ digfacts = <<>>
    /\ ncalls = 0
    /\ query = NoQuery
    /\ pc = "length"
    /\ EngineIdle

\* digfacts.register_if_accepted('LENGTH', LenDigester)
RegisterLength ==
    /\ pc = "length"
    /\ digfacts' = register_if_accepted(includes, excludes, digfacts, "LENGTH",
                                        Factory("LenDigester", ""))
    /\ pc' = "hashlib"
    /\ UNCHANGED <<includes, excludes, include_CRCs, ncalls, query, enginevars>>

AppendHashlibDigesters ==
    /\ pc = "hashlib"
    /\ digfacts' = append_hashlib_digesters(includes, excludes, digfacts)
    /\ pc' = "plugin"
    /\ UNCHANGED <<includes, excludes, include_CRCs, ncalls, query, enginevars>>

\* register_if_accepted called by a plugin, without the assert on the name.
RegisterIfAcceptedNoAssert(algo, fact) ==
    /\ pc = "plugin"
    /\ ncalls < MaxPluginCalls
    /\ ncalls' = ncalls + 1
    /\ digfacts' = register_if_accepted(includes, excludes, digfacts, algo, fact)
    /\ pc' = pc
    /\ UNCHANGED <<includes, excludes, include_CRCs, query, enginevars>>

\* A plugin loader calls digfacts.register_if_accepted(algo, factory).
RegisterIfAccepted(algo, fact) ==
    /\ pc = "plugin"
    /\ ncalls < MaxPluginCalls
    /\ ncalls' = ncalls + 1
    /\ IF isupper(algo)
       THEN /\ digfacts' = register_if_accepted(includes, excludes, digfacts, algo, fact)
            /\ pc' = pc
       ELSE /\ digfacts' = digfacts
            /\ pc' = "AssertionError"
    /\ UNCHANGED <<includes, excludes, include_CRCs, query, enginevars>>

\* plugin.append_plugin_digesters(digfacts) returns.
PluginsLoaded ==
    /\ pc = "plugin"
    /\ pc' = "git"
    /\ UNCHANGED <<regvars, enginevars>>

AppendGitDigesters ==
    /\ pc = "git"
    /\ digfacts' = append_git_digesters(includes, excludes, digfacts)
    /\ pc' = "crc"
    /\ UNCHANGED <<includes, excludes, include_CRCs, ncalls, query, enginevars>>

\* if include_CRCs: append_crc_digesters(digfacts)
AppendCrcDigesters ==
    /\ pc = "crc"
    /\ digfacts' = IF include_CRCs
                   THEN append_crc_digesters(includes, excludes, digfacts)
                   ELSE digfacts
    /\ pc' = "assert"
    /\ UNCHANGED <<includes, excludes, include_CRCs, ncalls, query, enginevars>>

\* assert all(k.isupper() for k in digfacts.keys()); return digfacts
AssertKeysUpper ==
    /\ pc = "assert"
    /\ pc' = IF \A k \in Keys(digfacts) : isupper(k) THEN "collected" ELSE "AssertionError"
    /\ UNCHANGED <<regvars, enginevars>>

\* A client calls digfacts.is_algo_accepted(algo) while the registry is built.
IsAlgoAccepted(algo) ==
    /\ pc \in {"length", "hashlib", "plugin", "git", "crc", "assert"}
    /\ query' = [algo |-> algo,
                 ret |-> IF ~isupper(algo) THEN "AssertionError"
                         ELSE IF is_algo_accepted(includes, excludes, algo) THEN "True"
                         ELSE "False"]
    /\ UNCHANGED <<includes, excludes, include_CRCs, digfacts, ncalls, pc, enginevars>>

NextReg ==
    \/ RegisterLength
    \/ AppendHashlibDigesters
    \/ \E p \in PluginPool : RegisterIfAccepted(p.algo, p.fact)
    \/ PluginsLoaded
    \/ AppendGitDigesters
    \/ AppendCrcDigesters
    \/ AssertKeysUpper
    \/ \E n \in QueryNames : IsAlgoAccepted(n)

SpecReg == InitReg /\ [][NextReg]_vars

----------------------------------------------------------------------------
(* The digesters *)

HexLower == "0123456789abcdef"
HexUpper == "0123456789ABCDEF"

RECURSIVE HexOf(_, _, _)
HexOf(n, width, digits) ==
    IF width = 0 THEN ""
    ELSE HexOf(n \div 16, width - 1, digits) \o CharAt(digits, (n % 16) + 1)

RECURSIVE Absorb(_, _)
Absorb(h, data) ==
    IF data = <<>> THEN h
    ELSE Absorb((h * 31 + Head(data) + 1) % 65536, Tail(data))

RECURSIVE SumOrd(_)
SumOrd(s) == IF s = "" THEN 0 ELSE Ord[Head(s)] + SumOrd(Tail(s))

\* The hexdigest() of a hashlib object of algorithm `name` that has consumed
\* `data`: a 16-bit stand-in for the primitive, a function of the algorithm
\* and of the bytes consumed, in lower-case hex.
hashlib_hexdigest(name, data) == HexOf(Absorb(SumOrd(name), data), 4, HexLower)

\* crcmod's PredefinedCrc.hexdigest(): an 8-bit stand-in, in upper-case hex.
crcmod_hexdigest(name, data) == HexOf(Absorb(SumOrd(name), data) % 256, 2, HexUpper)

Digester(cls, name, n, data) == [cls |-> cls, name |-> name, fsize |-> n, data |-> data]

\* git_header without the NUL that ends the header.
git_header_no_nul(otype, n) == encode(otype \o " " \o str(n))

\* git_header(otype, fsize): ("%s %i\0" % (otype, fsize)).encode()
git_header(otype, n) == encode(otype \o " " \o str(n)) \o <<0>>

\* hashlib.new(name) / hashlib.sha1(data)
hashlib_new(name, data) == Digester("hashlib", lower(name), 0, data)

\* LenDigester.__init__: the class attribute fsize = 0 shows through unless set.
LenDigester(fs) ==
    Digester("LenDigester", "", IF fs # <<>> THEN 0 - fs[1] ELSE classattrs.fsize, <<>>)

\* GitSlurpDigester.__init__: the class attribute fbytes = b'' shows through.
GitSlurpDigester(otype) == Digester("GitSlurpDigester", otype, 0, classattrs.fbytes)

\* git_factory(otype, fsize)
git_factory(otype, fs) ==
    IF fs = <<>> THEN GitSlurpDigester(otype)
    ELSE hashlib_new("sha1", git_header(otype, fs[1]))

\* fact(fsize), for the factories the passes register.
new_digester(fact, fs) ==
    CASE fact.kind = "LenDigester" -> LenDigester(fs)
      [] fact.kind = "hashlib" -> hashlib_new(fact.arg, <<>>)
      [] fact.kind = "git" -> git_factory(fact.arg, fs)
      [] fact.kind = "crc" -> Digester("MyCrc", fact.arg, 0, <<>>)

\* LenDigester.update counting the chunks instead of their bytes.
len_update_count_chunks(d, b) == IF d.fsize >= 0 THEN [d EXCEPT !.fsize = d.fsize + 1] ELSE d

\* LenDigester.update
len_update(d, b) == IF d.fsize >= 0 THEN [d EXCEPT !.fsize = d.fsize + Len(b)] ELSE d

\* GitSlurpDigester.update putting the new chunk in front of the buffer.
slurp_update_prepend(d, b) == [d EXCEPT !.data = b \o d.data]

\* GitSlurpDigester.update
slurp_update(d, b) == [d EXCEPT !.data = d.data \o b]

\* update storing its sum or its buffer in the class attribute.
class_after_update_shared(cls, d, b) ==
    CASE d.cls = "LenDigester" -> IF d.fsize >= 0 THEN [cls EXCEPT !.fsize = @ + Len(b)] ELSE cls
      [] d.cls = "GitSlurpDigester" -> [cls EXCEPT !.fbytes = @ \o b]
      [] OTHER -> cls

\* The class attributes after d.update(b): self.fsize += len(b) and
\* self.fbytes += fbytes read the attribute through the instance and bind the
\* new int / bytes object to the instance; the class keeps its value.
class_after_update(cls, d, b) == cls

\* digester.update(b)
update(d, b) ==
    CASE d.cls = "LenDigester" -> len_update(d, b)
      [] d.cls = "GitSlurpDigester" -> slurp_update(d, b)
      [] OTHER -> [d EXCEPT !.data = d.data \o b]

\* LenDigester.hexdigest: [ret, self, hashed]
len_hexdigest(d) ==
    LET n == IF d.fsize < 0 THEN 0 - d.fsize ELSE d.fsize
    IN  [ret |-> str(n), self |-> [d EXCEPT !.fsize = n], hashed |-> <<>>]

\* GitSlurpDigester.hexdigest
slurp_hexdigest(d) ==
    LET n == Len(d.data)
        inner == update(hashlib_new("sha1", git_header(d.name, n)), d.data)
    IN  [ret |-> hashlib_hexdigest(inner.name, inner.data), self |-> d,
         hashed |-> inner.data]

\* digester.hexdigest(): the str returned, the digester afterwards, and the
\* bytes its hash primitive has consumed.
hexdigest(d) ==
    CASE d.cls = "LenDigester" -> len_hexdigest(d)
      [] d.cls = "GitSlurpDigester" -> slurp_hexdigest(d)
      [] d.cls = "hashlib" ->
            [ret |-> hashlib_hexdigest(d.name, d.data), self |-> d, hashed |-> d.data]
      [] d.cls = "MyCrc" ->
            [ret |-> lower(crcmod_hexdigest(d.name, d.data)), self |-> d, hashed |-> d.data]

----------------------------------------------------------------------------
(* produce_hashes *)

\* The byte values a chunk is made of.
ByteVals == {0, 97}
\* The number of content bytes of an input item at most.
MaxBytes == 2
\* The declared length of an input item at most.
MaxFsize == 2

ByteSeqs == UNION {[1..k -> ByteVals] : k \in 0..MaxBytes}

TotalLen(chunks) == Len(Concat(chunks))

\* What a byte source yields: non-empty chunks (iter(read, b'') stops at the
\* first empty read), or the one empty chunk of an empty string item.
ChunkSeqs ==
    {cs \in UNION {[1..k -> ByteSeqs \ {<<>>}] : k \in 0..MaxBytes} : TotalLen(cs) <= MaxBytes}
    \cup {<< <<>> >>}

\* None, the small lengths, and one length no content of the model reaches.
FsizeChoices == {<<>>} \cup {<<n>> : n \in 0..MaxFsize} \cup {<<42>>}

\* The -m values of an invocation.
MatchChoices == {<<>>, <<"">>, <<"2">>, <<"zz">>}

\* if match:
truthy(m) == m # <<>> /\ m[1] # ""

\* The operands of `in` swapped: result in match.
result_matches_swapped(m, r) == contains(m[1], r)

\* match in result
result_matches(m, r) == contains(r, m[1])

\* A tee that reads the first chunk ahead when it is made.
tee_prefetch(iterable, n) ==
    [cursor |-> [i \in 1..n |-> 0],
     buf |-> IF iterable = <<>> THEN <<>> ELSE <<iterable[1]>>,
     base |-> 0]

\* itertools.tee(iterable, n): n cursors over one shared buffer of the chunks
\* read from the source that some cursor has still to deliver.
tee(iterable, n) == [cursor |-> [i \in 1..n |-> 0], buf |-> <<>>, base |-> 0]

\* A tee that hands a lagging cursor the newest buffered chunk first.
tee_item_lifo(st, i) == st.buf[Len(st.buf) - (st.cursor[i] - st.base)]

\* The chunk a cursor that lags the source delivers next.
tee_item(st, i) == st.buf[st.cursor[i] - st.base + 1]

Min(S) == CHOOSE m \in S : \A k \in S : m <= k

\* A cursor has moved: the chunks every cursor is past are dropped.
tee_release(st) ==
    LET low == Min({st.cursor[i] : i \in 1..Len(st.cursor)})
    IN  [st EXCEPT !.buf = SubSeq(st.buf, low - st.base + 1, Len(st.buf)),
                   !.base = low]

\* The cursor of stream i has delivered all the tee has read from the source.
AtSource(st, i) == st.cursor[i] - st.base = Len(st.buf)

\* results[algo] = result
SetResult(d, algo, digest) ==
    IF algo \in Keys(d)
    THEN [d EXCEPT ![KeyIndex(d, algo)] = [algo |-> algo, digest |-> digest]]
    ELSE Append(d, [algo |-> algo, digest |-> digest])

\* echo(algo, digest, json)
echo(out, algo, digest, json) ==
    IF ~json THEN Append(out, [algo |-> algo, digest |-> digest]) ELSE out

\* The message given without looking at match_found.
no_matches_message_always(m, found, json) == truthy(m) /\ ~json

\* Lines 347-350: the "No matches found!" message.
no_matches_message(m, found, json) == truthy(m) /\ ~found /\ ~json

EngineIncludes == {<<>>, <<"zz">>, <<"len", "git-b", "crc-3">>}
EngineExcludes == {<<>>, <<"commit", "tag", "md5">>}

\* main, after digfacts = collect_digester_factories(f, x, c).
Init ==
    /\ \E f \in EngineIncludes, x \in EngineExcludes :
          /\ includes = UpperAll(f)
          /\ excludes = UpperAll(x)
          /\ \E c \in BOOLEAN :
                /\ include_CRCs = c
                /\ digfacts = collect_digester_factories(f, x, c)
    /\ ncalls = 0
    /\ query = NoQuery
    /\ pc = "ready"
    /\ fsize = <<>> /\ bytechunks = <<>> /\ srcpos = 0
    /\ srcdone = FALSE /\ srcfailed = FALSE
    /\ match \in MatchChoices
    /\ use_json \in BOOLEAN
    /\ streams = [cursor |-> <<>>, buf |-> <<>>, base |-> 0]
    /\ idx = 0 /\ digester = <<>> /\ calls = <<>> /\ result = "" /\ hashed = <<>>
    /\ computed = <<>> /\ results = <<>> /\ match_found = FALSE
    /\ stdout = <<>> /\ stderr = <<>> /\ returned = <<>>
    /\ classattrs = ClassDefaults /\ finals = 0
    /\ hashmes = <<>> /\ itemno = 0 /\ all_results = <<>> /\ fds = <<>> /\ printed = <<>>

\* produce_hashes(fsize, bytechunks, digfacts, match, use_json): lines 327-331.
ProduceHashes(fs, chunks) ==
    /\ pc = "ready"
    /\ fsize' = fs
    /\ bytechunks' = chunks
    /\ streams' = tee(chunks, Len(digfacts))
    /\ srcpos' = streams'.base + Len(streams'.buf)
    /\ srcdone' = FALSE /\ srcfailed' = FALSE
    /\ results' = <<>>
    /\ match_found' = FALSE
    /\ idx' = 0 /\ digester' = <<>> /\ calls' = <<>> /\ finals' = 0
    /\ result' = "" /\ hashed' = <<>> /\ computed' = <<>> /\ returned' = <<>>
    /\ pc' = "loop"
    /\ UNCHANGED <<regvars, mainvars, match, use_json, classattrs, stdout, stderr>>

\* for stream, (algo, fact) in batch: digester = fact(fsize)
NextAlgo ==
    /\ pc = "loop"
    /\ idx < Len(digfacts)
    /\ idx' = idx + 1
    /\ digester' = <<new_digester(digfacts[idx + 1].fact, fsize)>>
    /\ calls' = <<>>
    /\ finals' = 0
    /\ pc' = "feed"
    /\ UNCHANGED <<regvars, mainvars, srcvars, streams, result, hashed, computed, classattrs,
                   outvars>>

\* for b in stream: digester.update(b), the chunk coming from the tee's buffer
\* or, for a cursor that is level with the source, from the source.
Feed ==
    /\ pc = "feed"
    /\ IF ~AtSource(streams, idx)
       THEN /\ LET b == tee_item(streams, idx)
               IN  /\ digester' = <<update(digester[1], b)>>
                   /\ classattrs' = class_after_update(classattrs, digester[1], b)
                   /\ calls' = Append(calls, b)
            /\ streams' = tee_release([streams EXCEPT !.cursor[idx] = @ + 1])
            /\ srcpos' = srcpos
       ELSE /\ ~srcdone
            /\ srcpos < Len(bytechunks)
            /\ LET b == bytechunks[srcpos + 1]
               IN  /\ digester' = <<update(digester[1], b)>>
                   /\ classattrs' = class_after_update(classattrs, digester[1], b)
                   /\ calls' = Append(calls, b)
                   /\ streams' = tee_release([streams EXCEPT !.cursor[idx] = @ + 1,
                                                             !.buf = Append(@, b)])
            /\ srcpos' = srcpos + 1
    /\ UNCHANGED <<regvars, mainvars, fsize, bytechunks, srcdone, srcfailed, match, use_json,
                   idx, result, hashed, computed, finals, outvars, pc>>

\* The inner for loop left before the stream is exhausted.
StreamExhaustedEarly ==
    /\ pc = "feed"
    /\ srcdone' = srcdone
    /\ pc' = "digest"
    /\ UNCHANGED <<regvars, mainvars, fsize, bytechunks, srcpos, srcfailed, match, use_json,
                   loopvars, outvars>>

\* The source is a file, a response or a pipe, whose read can raise; the
\* tuple (bhashme,) of a string item cannot.
\* The stream raises StopIteration: its cursor is level with the source and
\* the source is exhausted (an exhausted source stays exhausted when asked again).
StreamExhausted ==
    /\ pc = "feed"
    /\ AtSource(streams, idx)
    /\ srcdone \/ srcpos = Len(bytechunks)
    /\ srcdone' = TRUE
    /\ pc' = "digest"
    /\ UNCHANGED <<regvars, mainvars, fsize, bytechunks, srcpos, srcfailed, match, use_json,
                   loopvars, outvars>>

\* The read error caught and taken for the end of the stream.
SourceRaisesSwallowed ==
    /\ pc = "feed"
    /\ AtSource(streams, idx)
    /\ ~srcdone
    /\ IF itemno = 0 THEN TRUE ELSE hashmes[itemno].kind # "string"
    /\ srcfailed' = TRUE
    /\ srcdone' = TRUE
    /\ pc' = "digest"
    /\ UNCHANGED <<regvars, mainvars, fsize, bytechunks, srcpos, match, use_json,
                   loopvars, outvars>>

\* The source raises while the tee reads it: the exception leaves produce_hashes.
SourceRaises ==
    /\ pc = "feed"
    /\ AtSource(streams, idx)
    /\ ~srcdone
    /\ IF itemno = 0 THEN TRUE ELSE hashmes[itemno].kind # "string"
    /\ srcfailed' = TRUE
    /\ pc' = "raised"
    /\ UNCHANGED <<regvars, mainvars, fsize, bytechunks, srcpos, srcdone, match, use_json,
                   loopvars, outvars>>

\* The digest stored in the registry, under the algorithm's name.
DigestIntoRegistry ==
    /\ pc = "digest"
    /\ \E h \in {hexdigest(digester[1])} :
       LET algo == digfacts[idx].algo
           keep == IF truthy(match) THEN result_matches(match, h.ret) ELSE TRUE
       IN  /\ digester' = <<h.self>>
           /\ result' = h.ret
           /\ hashed' = h.hashed
           /\ computed' = Append(computed, [algo |-> algo, digest |-> h.ret])
           /\ results' = IF keep THEN SetResult(results, algo, h.ret) ELSE results
           /\ digfacts' = IF keep THEN SetItem(digfacts, algo, Factory("digest", h.ret))
                          ELSE digfacts
           /\ stdout' = IF keep THEN echo(stdout, algo, h.ret, use_json) ELSE stdout
           /\ match_found' = IF truthy(match) /\ keep THEN TRUE ELSE match_found
    /\ finals' = finals + 1
    /\ pc' = "loop"
    /\ UNCHANGED <<includes, excludes, include_CRCs, ncalls, query, mainvars, srcvars, streams,
                   idx, calls, classattrs, stderr, returned>>

\* result = digester.hexdigest() and the match filter: lines 337-345.
Digest ==
    /\ pc = "digest"
    /\ \E h \in {hexdigest(digester[1])} :
       LET algo == digfacts[idx].algo
           keep == IF truthy(match) THEN result_matches(match, h.ret) ELSE TRUE
       IN  /\ digester' = <<h.self>>
           /\ result' = h.ret
           /\ hashed' = h.hashed
           /\ computed' = Append(computed, [algo |-> algo, digest |-> h.ret])
           /\ results' = IF keep THEN SetResult(results, algo, h.ret) ELSE results
           /\ stdout' = IF keep THEN echo(stdout, algo, h.ret, use_json) ELSE stdout
           /\ match_found' = IF truthy(match) /\ keep THEN TRUE ELSE match_found
    /\ finals' = finals + 1
    /\ pc' = "loop"
    /\ UNCHANGED <<regvars, mainvars, srcvars, streams, idx, calls, classattrs, stderr,
                   returned>>

\* A return from inside the loop over batch.
ReturnEarly ==
    /\ pc = "loop"
    /\ stderr' = IF no_matches_message(match, match_found, use_json)
                 THEN Append(stderr, "No matches found!")
                 ELSE stderr
    /\ returned' = <<results>>
    /\ pc' = "returned"
    /\ UNCHANGED <<regvars, mainvars, srcvars, loopvars, results, match_found, stdout>>

\* Lines 347-352: the loop is over.
Return ==
    /\ pc = "loop"
    /\ idx = Len(digfacts)
    /\ stderr' = IF no_matches_message(match, match_found, use_json)
                 THEN Append(stderr, "No matches found!")
                 ELSE stderr
    /\ returned' = <<results>>
    /\ pc' = "returned"
    /\ UNCHANGED <<regvars, mainvars, srcvars, loopvars, results, match_found, stdout>>

Next ==
    \/ \E fs \in FsizeChoices, chunks \in ChunkSeqs : ProduceHashes(fs, chunks)
    \/ NextAlgo
    \/ Feed
    \/ StreamExhausted
    \/ SourceRaises
    \/ Digest
    \/ Return

Spec == Init /\ [][Next]_vars

\* The invocations followed to the end of produce_hashes: every registry of
\* Init, with and without a match substring, printing as text.
InitLive ==
    /\ Init
    /\ match \in {<<>>, <<"2">>}
    /\ use_json = FALSE

\* The steps of a call of produce_hashes that has started.
NextInCall ==
    \/ NextAlgo
    \/ Feed
    \/ StreamExhausted
    \/ SourceRaises
    \/ Digest
    \/ Return

\* The interpreter keeps running the one thread of the program, so a call that
\* has started keeps taking steps.
SpecLive == InitLive /\ [][Next]_vars /\ WF_vars(NextInCall)

----------------------------------------------------------------------------
(* main: the loop over the items of the command line *)

\* The most items on a command line.
MaxItems == 2

\* The items: a name and what validators.url, os.path, open and requests.get
\* answer for it. chunks is what the file or the response yields; length is
\* the Content-Length header of a response, <<>> when there is none.
ItemPool ==
    { [name |-> "a", kind |-> "string", chunks |-> <<>>, length |-> <<>>, fails |-> FALSE],
      [name |-> "f", kind |-> "file", chunks |-> << <<97>>, <<0>> >>, length |-> <<>>,
       fails |-> FALSE],
      [name |-> "d", kind |-> "dir", chunks |-> <<>>, length |-> <<>>, fails |-> FALSE],
      [name |-> "http://h/u", kind |-> "url", chunks |-> << <<97>>, <<0>> >>, length |-> <<>>,
       fails |-> FALSE],
      [name |-> "http://h/x", kind |-> "url", chunks |-> <<>>, length |-> <<>>,
       fails |-> TRUE] }

ItemLists == UNION {[1..k -> ItemPool] : k \in 1..MaxItems}

\* iterate_bytechunks(hashme, ...) of an item that is not a directory and
\* whose fetch does not fail: (fsize, bytechunks).
iterate_bytechunks(it) ==
    CASE it.kind = "url" -> [fsize |-> it.length, bytechunks |-> it.chunks]
      [] it.kind = "file" -> [fsize |-> <<TotalLen(it.chunks)>>, bytechunks |-> it.chunks]
      [] OTHER -> [fsize |-> <<Len(encode(it.name))>>, bytechunks |-> <<encode(it.name)>>]

\* The line iterate_bytechunks echoes for the item.
hashing_message(it) ==
    CASE it.kind = "url" -> "Hashing content of URL " \o it.name \o ".."
      [] it.kind = "file" -> "Hashing file " \o it.name \o ".."
      [] it.kind = "dir" -> "Skipping directory '" \o it.name \o "'.."
      [] OTHER -> "Hashing string " \o it.name \o ".."

\* A line of stdout that is not a digest line.
TextLine(text) == [algo |-> "", digest |-> text]

NoContentLength ==
    "[Could not get response-size due to: int() argument must be a string, a bytes-like object or a number, not 'NoneType'"

\* json.dumps(results, sort_keys=True): every result with its keys in order.
SortKeys(d) ==
    LET ks == sorted(Keys(d)) IN [i \in 1..Len(ks) |-> d[KeyIndex(d, ks[i])]]

\* main has built digfacts and is at the for loop over hashmes.
InitMain ==
    /\ \E f \in {<<"len", "git-b">>, <<"zz">>} :
          /\ includes = UpperAll(f)
          /\ excludes = <<>>
          /\ include_CRCs = FALSE
          /\ digfacts = collect_digester_factories(f, <<>>, FALSE)
    /\ ncalls = 0
    /\ query = NoQuery
    /\ pc = "main"
    /\ fsize = <<>> /\ bytechunks = <<>> /\ srcpos = 0
    /\ srcdone = FALSE /\ srcfailed = FALSE
    /\ match \in {<<>>, <<"2">>}
    /\ use_json \in BOOLEAN
    /\ streams = [cursor |-> <<>>, buf |-> <<>>, base |-> 0]
    /\ idx = 0 /\ digester = <<>> /\ calls = <<>> /\ result = "" /\ hashed = <<>>
    /\ computed = <<>> /\ results = <<>> /\ match_found = FALSE
    /\ stdout = <<>> /\ stderr = <<>> /\ returned = <<>>
    /\ classattrs = ClassDefaults /\ finals = 0
    /\ hashmes \in ItemLists
    /\ itemno = 0 /\ all_results = <<>> /\ printed = <<>>
    /\ fds = [i \in 1..Len(hashmes) |-> "none"]

\* Lines 203-207: the next hashme; data = iterate_bytechunks(hashme, s, j, hash_many).
IterateBytechunks ==
    /\ pc = "main"
    /\ itemno < Len(hashmes)
    /\ itemno' = itemno + 1
    /\ LET it == hashmes[itemno + 1]
           hash_many == Len(hashmes) > 1
           err == it.kind = "dir" \/ ~hash_many
           nolen == it.kind = "url" /\ ~it.fails /\ it.length = <<>>
       IN  /\ stdout' = IF ~use_json /\ ~err
                        THEN Append(stdout, TextLine(hashing_message(it)))
                        ELSE stdout
           /\ stderr' = (IF ~use_json /\ err THEN Append(stderr, hashing_message(it))
                         ELSE stderr)
                        \o (IF nolen THEN <<NoContentLength>> ELSE <<>>)
           /\ fds' = IF it.kind = "file" THEN [fds EXCEPT ![itemno + 1] = "open"] ELSE fds
           /\ pc' = CASE it.kind = "url" /\ it.fails -> "ValueError"
                      [] it.kind = "dir" -> "main"
                      [] OTHER -> "ready"
    /\ UNCHANGED <<regvars, srcvars, loopvars, results, match_found, returned, hashmes,
                   all_results, printed>>

\* Line 208: result = produce_hashes(length, bytechunks, digfacts, match=m, use_json=j)
MainProduceHashes ==
    /\ itemno >= 1
    /\ LET data == iterate_bytechunks(hashmes[itemno])
       IN  ProduceHashes(data.fsize, data.bytechunks)

\* Lines 209-211: if result: result['NAME'] = hashme; results.append(result)
MainAppend ==
    /\ pc = "returned"
    /\ itemno >= 1
    /\ all_results' = IF returned[1] # <<>>
                      THEN Append(all_results,
                                  SetResult(returned[1], "NAME", hashmes[itemno].name))
                      ELSE all_results
    /\ pc' = "main"
    /\ UNCHANGED <<regvars, srcvars, loopvars, outvars, hashmes, itemno, fds, printed>>

\* Lines 213-214: the loop over hashmes is over.
MainDone ==
    /\ pc = "main"
    /\ itemno = Len(hashmes)
    /\ printed' = IF all_results # <<>> /\ use_json
                  THEN <<[i \in 1..Len(all_results) |-> SortKeys(all_results[i])]>>
                  ELSE printed
    /\ pc' = "done"
    /\ UNCHANGED <<regvars, srcvars, loopvars, outvars, hashmes, itemno, all_results, fds>>

\* Nothing of the program closes the file of a FileIter: the tee iterates over
\* what __iter__ returns, the inner iterator, so FileIter.next and its close()
\* are never called. The runtime closes the file when it collects the FileIter,
\* which it may do once main's bytechunks is bound to a later item's source or
\* main has returned.
FileIterCollected(i) ==
    /\ fds[i] = "open"
    /\ \/ pc = "done"
       \/ \E j \in (i + 1)..itemno :
             hashmes[j].kind # "dir" /\ ~(hashmes[j].kind = "url" /\ hashmes[j].fails)
    /\ fds' = [fds EXCEPT ![i] = "closed"]
    /\ UNCHANGED <<regvars, srcvars, loopvars, outvars, hashmes, itemno, all_results,
                   printed, pc>>

\* Lines 367-371: except ValueError as ex: echo(ex, err=True). echo has no
\* parameter err, so the handler itself raises TypeError.
EntryPointHandler ==
    /\ pc = "ValueError"
    /\ pc' = "TypeError"
    /\ UNCHANGED <<regvars, srcvars, loopvars, outvars, mainvars>>

NextMain ==
    \/ IterateBytechunks
    \/ MainProduceHashes
    \/ NextAlgo
    \/ Feed
    \/ StreamExhausted
    \/ SourceRaises
    \/ Digest
    \/ Return
    \/ MainAppend
    \/ MainDone
    \/ \E i \in 1..Len(hashmes) : FileIterCollected(i)
    \/ EntryPointHandler

SpecMain == InitMain /\ [][NextMain]_vars

----------------------------------------------------------------------------
(* Properties *)

\* The loop has just finished the algorithm digfacts[idx]: result, hashed,
\* calls and digester are those of that algorithm.
JustDigested == pc \in {"loop", "returned"} /\ idx >= 1

CurFact == digfacts[idx].fact

RECURSIVE FeedAll(_, _)
FeedAll(d, chunks) ==
    IF chunks = <<>> THEN d ELSE FeedAll(update(d, Head(chunks)), Tail(chunks))

\* One algorithm run alone over a chunk sequence: construct, feed, finalize.
RunAlone(fact, fs, chunks) == hexdigest(FeedAll(new_digester(fact, fs), chunks))

\* C1: with at least 2 algorithms registered, each algorithm's accumulator has
\* been given exactly the source's chunks, once each and in source order, and
\* its digest is the digest of that algorithm run alone over those chunks.
ThmC1_FanOut ==
    (JustDigested /\ Len(digfacts) >= 2) =>
        /\ calls = bytechunks
        /\ result = RunAlone(CurFact, fsize, bytechunks).ret

WitC1_FanOut ==
    /\ JustDigested /\ Len(digfacts) >= 2 /\ idx >= 2
    /\ Len(bytechunks) = 2 /\ bytechunks[1] # bytechunks[2]
    /\ calls = bytechunks

\* C2: a registration step never replaces the factory of a name that is
\* already in the registry.
ClaimC2_NeverReplaced ==
    [][\A i \in 1..Len(digfacts) : \A j \in 1..Len(digfacts') :
          digfacts'[j].algo = digfacts[i].algo => digfacts'[j].fact = digfacts[i].fact]_vars

\* C3: for an upper-case name n, is_algo_accepted(n) answers (never asserts),
\* and answers True exactly when (includes is empty or some include fragment
\* is a substring of n) and not (excludes is non-empty and some exclude
\* fragment is a substring of n), whatever the registry holds.
ThmC3_Accepted ==
    (query # NoQuery /\ isupper(query.algo)) =>
        /\ query.ret \in {"True", "False"}
        /\ (query.ret = "True") <=>
              /\ \/ Len(includes) = 0
                 \/ \E i \in 1..Len(includes) : contains(query.algo, includes[i])
              /\ ~ /\ Len(excludes) # 0
                   /\ \E j \in 1..Len(excludes) : contains(query.algo, excludes[j])

WitC3_Accepted ==
    /\ query.ret = "False"
    /\ AnyIn(includes, query.algo)
    /\ AnyIn(excludes, query.algo)
    /\ digfacts # <<>>

\* C4: a length counter constructed with a declared length d >= 0 returns
\* str(d) from hexdigest whatever chunks it was fed.
ClaimC4_DeclaredLength ==
    (JustDigested /\ CurFact.kind = "LenDigester" /\ fsize # <<>>) =>
        result = str(fsize[1])

\* C5: for each object type, the slurping accumulator and the known-length
\* accumulator constructed with the content's total length, fed the same
\* chunks, hash the same bytes and return the same digest.
ThmC5_GitVariantsAgree ==
    (JustDigested /\ CurFact.kind = "git") =>
        LET n == TotalLen(bytechunks)
        IN  /\ fsize = <<>> =>
                 LET known == RunAlone(CurFact, <<n>>, bytechunks)
                 IN  result = known.ret /\ hashed = known.hashed
            /\ fsize = <<n>> =>
                 LET slurp == RunAlone(CurFact, <<>>, bytechunks)
                 IN  result = slurp.ret /\ hashed = slurp.hashed

WitC5_GitVariantsAgree ==
    /\ JustDigested /\ CurFact.kind = "git"
    /\ fsize = <<>>
    /\ digester[1].cls = "GitSlurpDigester"
    /\ bytechunks = << <<97>>, <<0>> >>

\* The object type of a content-addressed algorithm name.
TypeOfName(algo) ==
    CASE algo = "GIT-BLOB" -> "blob"
      [] algo = "GIT-COMMIT" -> "commit"
      [] algo = "GIT-TAG" -> "tag"

\* C6: the bytes the hash primitive of a content-addressed algorithm consumes
\* are '<type> <decimal-length>', one NUL byte, then the content bytes as the
\* source gave them; <type> is lower-case and the length is the declared
\* length (known-length variant) or the number of bytes fed (slurping variant).
ThmC6_GitHeader ==
    (JustDigested /\ CurFact.kind = "git") =>
        LET n == IF fsize = <<>> THEN TotalLen(bytechunks) ELSE fsize[1]
            t == TypeOfName(digfacts[idx].algo)
        IN  /\ t = lower(t)
            /\ hashed = encode(t) \o <<32>> \o encode(str(n)) \o <<0>> \o Concat(bytechunks)

\* 'blob 2\0' followed by the two content bytes.
WitC6_GitHeader ==
    /\ JustDigested
    /\ digfacts[idx].algo = "GIT-BLOB"
    /\ bytechunks = << <<97>>, <<0>> >>
    /\ hashed = <<98, 108, 111, 98, 32, 50, 0, 97, 0>>

\* C7: produce_hashes computes a digest for every registered algorithm, in
\* registration order; with a match substring the result set holds exactly
\* those whose digest contains it, without one it holds them all.
ThmC7_MatchFilter ==
    pc = "returned" =>
        /\ [i \in 1..Len(computed) |-> computed[i].algo]
              = [i \in 1..Len(digfacts) |-> digfacts[i].algo]
        /\ returned[1] = IF match = <<>> THEN computed
                         ELSE SelectSeq(computed, LAMBDA e : contains(e.digest, match[1]))

WitC7_MatchFilter ==
    /\ pc = "returned"
    /\ match # <<>>
    /\ Len(returned[1]) >= 1
    /\ Len(returned[1]) < Len(computed)

NoMatchSignal == \E i \in 1..Len(stderr) : stderr[i] = "No matches found!"

NothingMatched == \A i \in 1..Len(computed) : ~contains(computed[i].digest, match[1])

\* C8 as claimed: the "no match found" signal is given exactly when a match
\* substring was supplied and no digest contains it, JSON output or not.
ClaimC8_NoMatchSignal ==
    pc = "returned" => (NoMatchSignal <=> (truthy(match) /\ NothingMatched))

\* C8 as amended: the signal is given exactly when a non-empty match
\* substring was supplied, no digest contains it and JSON output is off.
ThmC8_NoMatchSignal ==
    pc = "returned" => (NoMatchSignal <=> (truthy(match) /\ NothingMatched /\ ~use_json))

WitC8_NoMatchSignal ==
    /\ pc = "returned"
    /\ NoMatchSignal
    /\ Len(computed) >= 2

\* C9: with an empty registry produce_hashes reads nothing from the byte
\* source, does not raise, and returns an empty result set.
ThmC9_EmptyRegistry ==
    Len(digfacts) = 0 =>
        /\ srcpos = 0 /\ ~srcdone /\ ~srcfailed
        /\ pc \in {"ready", "loop", "returned"}
        /\ pc = "loop" => ENABLED Return
        /\ pc = "returned" => returned = << <<>> >>

WitC9_EmptyRegistry ==
    /\ Len(digfacts) = 0
    /\ pc = "returned"
    /\ Len(bytechunks) = 2

\* C10: once the byte source has failed, the pass has aborted: no result set
\* is returned and no digest has been echoed, of any algorithm.
ThmC10_SourceFailure ==
    srcfailed =>
        /\ pc = "raised"
        /\ returned = <<>>
        /\ stdout = <<>>
        /\ computed = <<>>

WitC10_SourceFailure ==
    /\ srcfailed
    /\ Len(digfacts) >= 2
    /\ srcpos >= 1
    /\ calls # <<>>

\* C13 as claimed: with 2 or more algorithms the tee's buffer never holds the
\* whole input (here: an input of 2 or more chunks).
ClaimC13_BoundedBuffer ==
    (Len(digfacts) >= 2 /\ Len(bytechunks) >= 2) => Len(streams.buf) < Len(bytechunks)

\* The inclusion/exclusion criteria accept the name n.
AcceptedByCriteria(n) ==
    /\ \/ Len(includes) = 0
       \/ \E i \in 1..Len(includes) : contains(n, includes[i])
    /\ ~ /\ Len(excludes) # 0
         /\ \E j \in 1..Len(excludes) : contains(n, excludes[j])

\* C14: in every state of the build, every name in the registry is accepted
\* by the inclusion/exclusion criteria.
ThmC14_OnlyAccepted ==
    \A i \in 1..Len(digfacts) : AcceptedByCriteria(digfacts[i].algo)

\* The build is over, plugins have called register_if_accepted, and none of
\* the upper-case names they offer is in the registry.
WitC14_OnlyAccepted ==
    /\ pc = "collected"
    /\ ncalls >= 1
    /\ digfacts # <<>>
    /\ \A p \in PluginPool : p.algo \notin Keys(digfacts)

KeysUpper == \A i \in 1..Len(digfacts) : isupper(digfacts[i].algo)

\* C15: every name in the registry is upper-case in every state;
\* is_algo_accepted with a name that is not upper-case fails its assertion;
\* a step that ends in the assertion failure leaves the registry unchanged.
ThmC15_UpperNames ==
    /\ [](KeysUpper /\ ((query # NoQuery /\ ~isupper(query.algo)) => query.ret = "AssertionError"))
    /\ [][pc' = "AssertionError" => digfacts' = digfacts]_vars

WitC15_UpperNames ==
    /\ pc = "AssertionError"
    /\ ncalls >= 1
    /\ digfacts # <<>>

RECURSIVE SumLens(_)
SumLens(chunks) == IF chunks = <<>> THEN 0 ELSE Len(Head(chunks)) + SumLens(Tail(chunks))

\* C16: a length counter constructed without a declared length returns the
\* decimal string of the sum of the lengths of the chunks it was fed ("0" for
\* no bytes); constructed with 42 and never updated it returns "42".
ThmC16_LengthCounter ==
    (JustDigested /\ CurFact.kind = "LenDigester") =>
        /\ fsize = <<>> => result = str(SumLens(calls))
        /\ (fsize = <<>> /\ SumLens(calls) = 0) => result = "0"
        /\ (fsize = <<42>> /\ calls = <<>>) => result = "42"

WitC16_LengthCounter ==
    /\ JustDigested /\ CurFact.kind = "LenDigester"
    /\ fsize = <<>>
    /\ calls = << <<97, 0>> >>
    /\ result = "2"

\* The chunks given to the current accumulator are the first chunks of the
\* source, in source order.
CallsInChunkOrder ==
    Len(calls) <= Len(bytechunks) /\ calls = SubSeq(bytechunks, 1, Len(calls))

\* The algorithms finished so far are the first names of the registry, in
\* registration order.
VisitedInRegistrationOrder ==
    /\ Len(computed) <= Len(digfacts)
    /\ \A i \in 1..Len(computed) : computed[i].algo = digfacts[i].algo
    /\ Len(computed) = (IF pc \in {"feed", "digest", "raised"} THEN idx - 1 ELSE idx)

\* C17: the engine visits the (name, factory) pairs in registration order; an
\* accumulator gets its update calls in chunk order and before its finalize;
\* finalize is called exactly once, and only after the accumulator's replica
\* is exhausted; no update is called on an accumulator after its finalize.
ThmC17_AccumulatorProtocol ==
    /\ [](/\ VisitedInRegistrationOrder
          /\ CallsInChunkOrder
          /\ finals \in {0, 1}
          /\ pc \in {"feed", "digest", "raised"} => finals = 0
          /\ JustDigested => finals = 1
          /\ finals = 1 => /\ calls = bytechunks
                           /\ srcdone
                           /\ AtSource(streams, idx))
    /\ [][(calls' # calls /\ calls' # <<>>) => (finals = 0 /\ finals' = 0)]_vars
    /\ [][idx' # idx => idx' = idx + 1 \/ idx' = 0]_vars

\* The second algorithm of a registry has been finalized over a source of
\* two chunks.
WitC17_AccumulatorProtocol ==
    /\ pc = "loop" /\ idx = 2 /\ finals = 1
    /\ Len(bytechunks) = 2 /\ calls = bytechunks
    /\ Len(computed) = 2

\* Every registered algorithm has been constructed, fed to the end of its
\* replica and finalized.
AllFinalized ==
    /\ idx = Len(digfacts)
    /\ Len(computed) = Len(digfacts)
    /\ \A i \in 1..Len(digfacts) :
          computed[i] = [algo |-> digfacts[i].algo,
                         digest |-> RunAlone(digfacts[i].fact, fsize, bytechunks).ret]
    /\ Len(digfacts) > 0 => (finals = 1 /\ srcdone)

\* C20: a call of produce_hashes whose source does not fail returns, and a
\* result set is returned only when every registered algorithm's accumulator
\* has consumed all chunks and been finalized.
ThmC20_ReturnsAfterBarrier ==
    /\ [](returned # <<>> => AllFinalized)
    /\ (pc = "loop") ~> (srcfailed \/ pc = "returned")

WitC20_ReturnsAfterBarrier ==
    /\ pc = "returned" /\ returned # <<>>
    /\ Len(digfacts) >= 2 /\ Len(bytechunks) = 2
    /\ ~srcfailed

\* C11 as claimed: a failure to acquire the source of one item does not keep
\* the items after it from being processed: main does not end on that failure
\* while items remain.
ClaimC11_LaterItemsProcessed ==
    pc \in {"ValueError", "TypeError"} => itemno = Len(hashmes)

\* C12 as claimed: when the hashing pass of a file item has ended, by
\* exhaustion of the chunks or by a failed read, its file handle is closed.
ClaimC12_HandleClosed ==
    (itemno >= 1 /\ hashmes[itemno].kind = "file" /\ pc \in {"returned", "raised"})
        => fds[itemno] = "closed"

\* The source of the item main is at, as iterate_bytechunks returned it.
CurData == iterate_bytechunks(hashmes[itemno])

\* An accumulator as its constructor leaves it: an empty buffer, a count of
\* zero (or the declared length, negated), no content byte consumed.
FreshAccumulator(d) ==
    /\ d.cls = "GitSlurpDigester" => d.data = <<>>
    /\ d.cls = "LenDigester" => d.fsize = (IF fsize = <<>> THEN 0 ELSE 0 - fsize[1])
    /\ d.cls = "hashlib" =>
          d.data = (IF CurFact.kind = "git" THEN git_header(CurFact.arg, fsize[1]) ELSE <<>>)
    /\ d.cls = "MyCrc" => d.data = <<>>

\* C18: in an invocation that hashes several items, every (item, algorithm)
\* pair gets a freshly constructed accumulator in its initial state, an
\* accumulator is given chunks of its own item only, the class attributes of
\* LenDigester and GitSlurpDigester keep their values, and an item's digests
\* are those of the item hashed alone.
ThmC18_NoSharedState ==
    /\ classattrs = ClassDefaults
    /\ (pc = "feed" /\ calls = <<>>) => FreshAccumulator(digester[1])
    /\ (pc \in {"feed", "digest", "loop", "returned"} /\ idx >= 1) =>
          /\ Len(calls) <= Len(CurData.bytechunks)
          /\ calls = SubSeq(CurData.bytechunks, 1, Len(calls))
    /\ JustDigested =>
          /\ calls = CurData.bytechunks
          /\ result = RunAlone(CurFact, CurData.fsize, CurData.bytechunks).ret

\* The second item of an invocation is a response without Content-Length, as
\* the first was, and its slurping accumulator has just been finalized.
WitC18_NoSharedState ==
    /\ itemno = 2 /\ JustDigested
    /\ digester[1].cls = "GitSlurpDigester"
    /\ hashmes[1].kind = "url" /\ ~hashmes[1].fails
    /\ Len(all_results) = 1

\* C19: no step of main's loop or of produce_hashes, whether the call returns
\* or ends in an exception, changes the registry's names, their order, their
\* factories or the criteria; every item is hashed with the registry's
\* algorithms.
ThmC19_RegistryImmutable ==
    /\ [][UNCHANGED <<digfacts, includes, excludes, include_CRCs>>]_vars
    /\ [](pc = "returned" =>
            /\ Len(computed) = Len(digfacts)
            /\ \A i \in 1..Len(digfacts) : computed[i].algo = digfacts[i].algo)

\* produce_hashes has returned for the second item of an invocation.
WitC19_RegistryImmutable ==
    /\ itemno = 2 /\ pc = "returned"
    /\ Len(digfacts) >= 2
    /\ Len(all_results) = 1

====
